---- MODULE Spec2Model ----
(***************************************************************************)
(* Model of serializer.py: the Serializer class derives a Pydantic model   *)
(* ("ModelSerializer") from the columns of an SQLAlchemy table class.      *)
(*                                                                         *)
(* State: one deriver `self` (include_fields, exclude_fields, fixed at     *)
(* construction), one table class `cls` (its table's columns, the keys of  *)
(* cls.__dict__, its `Serializer` attribute), the iteration order of the   *)
(* process's string sets, and the last call with its outcome.              *)
(***************************************************************************)
EXTENDS Naturals, Sequences, FiniteSets, TLC

VARIABLES self, cls, hashOrder, last

vars == <<self, cls, hashOrder, last>>

(* ------------------------------ bounds -------------------------------- *)

\* longest table (number of columns)
MaxCols == 2
\* most names in one selector (include_fields or exclude_fields)
MaxSel == 2

(* ------------------------- Python values ------------------------------ *)

\* ALL = ("__all__",)
ALL == <<"__all__">>
\* EMPTY = tuple()
EMPTY == <<>>

\* An Iterable[str] argument: a tuple or a list of names.
PyTuple(items) == [kind |-> "tuple", items |-> items]
PyList(items) == [kind |-> "list", items |-> items]

\* `x == <tuple constant>`: a tuple equals a tuple of the same items; a
\* list never equals a tuple.
PyEq(x, tup) == x.kind = "tuple" /\ x.items = tup

\* `a in x`
PyIn(a, x) == \E i \in DOMAIN x.items : x.items[i] = a

\* {*x}
Elems(x) == {x.items[i] : i \in DOMAIN x.items}

\* the value `...`
Ellipsis == "..."

\* column.default: None, or a ColumnDefault holding .arg
NoDefault == [isNone |-> TRUE, arg |-> ""]
ColumnDefault(arg) == [isNone |-> FALSE, arg |-> arg]

\* a column of the table: column.name, column.type.python_type, column.default
Column(name, python_type, default) ==
    [name |-> name, python_type |-> python_type, default |-> default]

(* ------------------------------ outcomes ------------------------------ *)

NoModel == [name |-> "", fields |-> <<>>]

\* raise AttributeError: check 1 (both parameters filled), 2 (a field in
\* both), 3 (the table doesn't have the field); `field` is the name in the message
Raise(check, field) ==
    [kind |-> "error", check |-> check, field |-> field, model |-> NoModel]

\* _check_fields falls off its end
ReturnNone == [kind |-> "none", check |-> 0, field |-> "", model |-> NoModel]

\* return model
ReturnModel(model) == [kind |-> "model", check |-> 0, field |-> "", model |-> model]

\* return cls
ReturnCls == [kind |-> "cls", check |-> 0, field |-> "", model |-> NoModel]

(* --------------------------- _check_fields ---------------------------- *)

\* CheckAttr with the existence test made against the table's columns
CheckAttr_Columns(s, c, attr) ==
    IF PyIn(attr, s.include_fields) /\ PyIn(attr, s.exclude_fields)
    THEN Raise(2, attr)
    ELSE IF PyIn(attr, PyTuple(ALL))
    THEN ReturnNone
    ELSE IF \A j \in DOMAIN c.columns : c.columns[j].name # attr
    THEN Raise(3, attr)
    ELSE ReturnNone

\* the body of the loop, for one attr
CheckAttr(s, c, attr) ==
    IF PyIn(attr, s.include_fields) /\ PyIn(attr, s.exclude_fields)
    THEN Raise(2, attr)
    ELSE IF PyIn(attr, PyTuple(ALL))
    THEN ReturnNone
    ELSE IF attr \notin c.dict
    THEN Raise(3, attr)
    ELSE ReturnNone

\* the order in which `for attr in {*include_fields, *exclude_fields}` visits
\* the set: the process's order of its strings
IterationOrder(s, order) ==
    SelectSeq(order, LAMBDA a : a \in Elems(s.include_fields) \cup Elems(s.exclude_fields))

RECURSIVE CheckLoop(_, _, _)
CheckLoop(s, c, attrs) ==
    IF attrs = <<>>
    THEN ReturnNone
    ELSE LET r == CheckAttr(s, c, Head(attrs))
         IN  IF r.kind = "error" THEN r ELSE CheckLoop(s, c, Tail(attrs))

\* _check_fields with the second `not` of its first test dropped
_check_fields_NegationSlip(s, c, order) ==
    IF ~PyEq(s.include_fields, ALL) /\ PyEq(s.exclude_fields, EMPTY)
    THEN Raise(1, "")
    ELSE CheckLoop(s, c, IterationOrder(s, order))

\* _check_fields without its first test
_check_fields_NoBothFilled(s, c, order) ==
    CheckLoop(s, c, IterationOrder(s, order))

_check_fields(s, c, order) ==
    IF ~PyEq(s.include_fields, ALL) /\ ~PyEq(s.exclude_fields, EMPTY)
    THEN Raise(1, "")
    ELSE CheckLoop(s, c, IterationOrder(s, order))

(* ----------------------------- _get_model ----------------------------- *)

\* the any((...)) condition on a column's name
Selected(s, name) ==
    \/ PyEq(s.include_fields, ALL) /\ ~PyIn(name, s.exclude_fields)
    \/ PyEq(s.exclude_fields, EMPTY) /\ PyIn(name, s.include_fields)

\* ResolveDefault without the test for None
ResolveDefault_ArgAlways(column) == column.default.arg

\* default = ... if column.default is None else column.default.arg
ResolveDefault(column) ==
    IF column.default.isNone THEN Ellipsis ELSE column.default.arg

\* DictSet putting a new key first
DictSet_Prepend(fields, name, value) ==
    <<[name |-> name, value |-> value]>> \o fields

\* fields[name] = value: a dict keeps a key's first position
DictSet(fields, name, value) ==
    IF \E i \in DOMAIN fields : fields[i].name = name
    THEN [i \in DOMAIN fields |->
            IF fields[i].name = name THEN [name |-> name, value |-> value] ELSE fields[i]]
    ELSE Append(fields, [name |-> name, value |-> value])

RECURSIVE CollectFields(_, _, _)
CollectFields(s, columns, fields) ==
    IF columns = <<>>
    THEN fields
    ELSE LET column == Head(columns)
             next == IF Selected(s, column.name)
                     THEN DictSet(fields, column.name,
                                  <<column.python_type, ResolveDefault(column)>>)
                     ELSE fields
         IN  CollectFields(s, Tail(columns), next)

\* create_model(name, **fields): one field per entry, in the dict's order
create_model(name, fields) ==
    [name |-> name,
     fields |-> [i \in DOMAIN fields |->
                    [name |-> fields[i].name,
                     type |-> fields[i].value[1],
                     default |-> fields[i].value[2]]]]

\* _get_model with one field per name of include_fields
_get_model_FromInclude(s, c) ==
    create_model("ModelSerializer",
                 [i \in DOMAIN s.include_fields.items |->
                     [name |-> s.include_fields.items[i], value |-> <<"str", Ellipsis>>]])

_get_model(s, c) ==
    create_model("ModelSerializer", CollectFields(s, c.columns, <<>>))

(* ------------------------- from_orm and add --------------------------- *)

from_orm(s, c, order) ==
    LET checked == _check_fields(s, c, order)
    IN  IF checked.kind = "error" THEN checked ELSE ReturnModel(_get_model(s, c))

\* setattr(cls, "Serializer", value)
SetSerializer(c, value) ==
    [c EXCEPT !.dict = @ \cup {"Serializer"},
              !.Serializer = [set |-> TRUE, value |-> value]]

\* add returning the model where it should return cls
add_ReturnsModel(s, c, order) ==
    LET model_serializer == from_orm(s, c, order)
    IN  IF model_serializer.kind = "error"
        THEN [cls |-> c, outcome |-> model_serializer]
        ELSE [cls |-> SetSerializer(c, model_serializer.model),
              outcome |-> model_serializer]

\* add attaching the model before the fields are checked
add_AttachFirst(s, c, order) ==
    LET attached == SetSerializer(c, _get_model(s, c))
        checked == _check_fields(s, c, order)
    IN  IF checked.kind = "error"
        THEN [cls |-> attached, outcome |-> checked]
        ELSE [cls |-> attached, outcome |-> ReturnCls]

\* add: the class after the call, and the call's outcome
add(s, c, order) ==
    LET model_serializer == from_orm(s, c, order)
    IN  IF model_serializer.kind = "error"
        THEN [cls |-> c, outcome |-> model_serializer]
        ELSE [cls |-> SetSerializer(c, model_serializer.model), outcome |-> ReturnCls]

(* ------------------------------- inputs ------------------------------- *)

\* the names a selector may hold, in a fixed order
SelNames == <<"id", "Serializer", "__all__">>

Range(q) == {q[i] : i \in DOMAIN q}

\* the item tuples of a selector: at most MaxSel names, each once
SelectorItems ==
    {SelectSeq(SelNames, LAMBDA a : a \in S) :
        S \in {T \in SUBSET Range(SelNames) : Cardinality(T) <= MaxSel}}

\* include_fields arguments. A list behaves as the tuple of the same items
\* except under ==, so the one list that == tells from its tuple is added.
IncludeArgs == {PyTuple(q) : q \in SelectorItems} \cup {PyList(ALL)}

\* exclude_fields arguments, with the list that == tells from EMPTY
ExcludeArgs == {PyTuple(q) : q \in SelectorItems} \cup {PyList(EMPTY)}

\* Serializer(include_fields, exclude_fields)
Serializer(include_fields, exclude_fields) ==
    [include_fields |-> include_fields, exclude_fields |-> exclude_fields]

Serializers == {Serializer(i, e) : i \in IncludeArgs, e \in ExcludeArgs}

\* the other Serializers that decorate the same class: the default one, one
\* that includes, one that excludes, and one that _check_fields rejects
OtherSerializers ==
    {Serializer(PyTuple(ALL), PyTuple(EMPTY)),
     Serializer(PyTuple(<<"id">>), PyTuple(EMPTY)),
     Serializer(PyTuple(ALL), PyTuple(<<"id">>)),
     Serializer(PyTuple(<<"id">>), PyTuple(<<"id">>))}

\* the columns a table is made of
ColumnPool ==
    {Column("id", "int", NoDefault),
     Column("name", "str", ColumnDefault("anon")),
     Column("age", "int", ColumnDefault("18"))}

RECURSIVE TablesOfLen(_)
TablesOfLen(n) ==
    IF n = 0
    THEN {<<>>}
    ELSE {Append(t, col) : t \in TablesOfLen(n - 1), col \in ColumnPool}

\* table.columns: at most MaxCols columns, their names unique within the table
Tables ==
    {t \in UNION {TablesOfLen(n) : n \in 0..MaxCols} :
        \A i, j \in DOMAIN t : t[i].name = t[j].name => i = j}

\* the attribute names a table class may declare (keys of cls.__dict__) that
\* a selector can name; an attribute need not be a column, nor a column an
\* attribute
DeclaredNames == {"id"}

\* a table class before any add: no Serializer attribute
Classes ==
    {[columns |-> t, dict |-> d, Serializer |-> [set |-> FALSE, value |-> NoModel]] :
        t \in Tables, d \in SUBSET DeclaredNames}

\* the orders in which a process may visit the strings of a set: every
\* permutation of SelNames (string hashes differ from process to process and
\* are fixed within one)
HashOrders ==
    {q \in [1..Len(SelNames) -> Range(SelNames)] :
        \A i, j \in 1..Len(SelNames) : q[i] = q[j] => i = j}

(* ---------------------------- state machine --------------------------- *)

Init ==
    /\ self \in Serializers
    /\ cls \in Classes
    /\ hashOrder \in HashOrders
    /\ last = [op |-> "init", by |-> "self", outcome |-> ReturnNone]

\* self._check_fields(cls)
Call_check_fields ==
    /\ last' = [op |-> "_check_fields", by |-> "self",
                outcome |-> _check_fields(self, cls, hashOrder)]
    /\ UNCHANGED <<self, cls, hashOrder>>

\* self._get_model(cls)
Call_get_model ==
    /\ last' = [op |-> "_get_model", by |-> "self",
                outcome |-> ReturnModel(_get_model(self, cls))]
    /\ UNCHANGED <<self, cls, hashOrder>>

\* self.from_orm(cls)
Call_from_orm ==
    /\ last' = [op |-> "from_orm", by |-> "self",
                outcome |-> from_orm(self, cls, hashOrder)]
    /\ UNCHANGED <<self, cls, hashOrder>>

\* self.add(cls)
Call_add ==
    /\ LET r == add(self, cls, hashOrder)
       IN  /\ cls' = r.cls
           /\ last' = [op |-> "add", by |-> "self", outcome |-> r.outcome]
    /\ UNCHANGED <<self, hashOrder>>

\* other.add(cls), for another Serializer on the same class
Call_add_other ==
    /\ \E other \in OtherSerializers :
          LET r == add(other, cls, hashOrder)
          IN  /\ cls' = r.cls
              /\ last' = [op |-> "add", by |-> "other", outcome |-> r.outcome]
    /\ UNCHANGED <<self, hashOrder>>

Next ==
    \/ Call_check_fields
    \/ Call_get_model
    \/ Call_from_orm
    \/ Call_add
    \/ Call_add_other

Spec == Init /\ [][Next]_vars

(* ------------------------------- claims ------------------------------- *)

FieldNames(model) == [i \in DOMAIN model.fields |-> model.fields[i].name]
ColumnNames(c) == [i \in DOMAIN c.columns |-> c.columns[i].name]

\* the Serializer was built with no arguments
IsDefault(s) == PyEq(s.include_fields, ALL) /\ PyEq(s.exclude_fields, EMPTY)

\* self's last call was from_orm
SelfFromOrm == last.by = "self" /\ last.op = "from_orm"

\* the names of include_fields, other than "__all__", that cls does not declare
Undeclared(s, c) == {n \in Elems(s.include_fields) : n # "__all__" /\ n \notin c.dict}

\* C1: with the default Serializer, from_orm succeeds and the model has one
\* field per column, named after the columns, in the table's column order.
C1_DefaultTakesEveryColumn ==
    (SelfFromOrm /\ IsDefault(self)) =>
        /\ last.outcome.kind = "model"
        /\ Len(last.outcome.model.fields) = Len(cls.columns)
        /\ FieldNames(last.outcome.model) = ColumnNames(cls)

C1_Witness ==
    /\ SelfFromOrm /\ IsDefault(self)
    /\ Len(cls.columns) >= 2
    /\ last.outcome.kind = "model"

\* C2: with include_fields explicit and non-empty and exclude_fields
\* non-empty, from_orm and add raise, whatever names the two hold.
C2_BothFilledRejected ==
    (/\ last.by = "self" /\ last.op \in {"from_orm", "add"}
     /\ ~PyEq(self.include_fields, ALL)
     /\ Len(self.include_fields.items) > 0
     /\ Len(self.exclude_fields.items) > 0)
        => last.outcome.kind = "error"

\* the two selectors share no name and every name is declared
C2_Witness ==
    /\ SelfFromOrm
    /\ ~PyEq(self.include_fields, ALL)
    /\ Len(self.include_fields.items) > 0
    /\ Len(self.exclude_fields.items) > 0
    /\ Elems(self.include_fields) \cap Elems(self.exclude_fields) = {}
    /\ Elems(self.include_fields) \cup Elems(self.exclude_fields) \subseteq cls.dict
    /\ last.outcome.kind = "error"

\* C3 as stated, for selectors given as tuples and an include_fields of
\* ordinary names: when one of them is not declared on the class, from_orm
\* raises and the error names an undeclared name of include_fields.
C3_Original ==
    (/\ SelfFromOrm
     /\ self.include_fields.kind = "tuple" /\ self.exclude_fields.kind = "tuple"
     /\ "__all__" \notin Elems(self.include_fields)
     /\ Undeclared(self, cls) # {})
        => /\ last.outcome.kind = "error"
           /\ last.outcome.field \in Undeclared(self, cls)

\* C3, amended: when include_fields holds a name other than "__all__" that
\* the class does not declare, from_orm raises; with exclude_fields the
\* default EMPTY it is the missing-field error and names one such name, and
\* otherwise it is the both-filled error, which names no field.
C3_UndeclaredRejected ==
    (SelfFromOrm /\ Undeclared(self, cls) # {}) =>
        /\ last.outcome.kind = "error"
        /\ IF PyEq(self.exclude_fields, EMPTY)
           THEN last.outcome.check = 3 /\ last.outcome.field \in Undeclared(self, cls)
           ELSE last.outcome.check = 1 /\ last.outcome.field = ""

\* two undeclared names: the error names the one the set's order visits first
C3_Witness ==
    /\ SelfFromOrm
    /\ PyEq(self.exclude_fields, EMPTY)
    /\ Cardinality(Undeclared(self, cls)) = 2
    /\ last.outcome.check = 3
    /\ last.outcome.field = "Serializer"

\* C4 as stated, for selectors of ordinary names: a model from_orm returns has
\* exactly the names of an explicit include_fields (exclude_fields default),
\* and exactly the column names not in an explicit exclude_fields
\* (include_fields default).
C4_Original ==
    (SelfFromOrm /\ last.outcome.kind = "model") =>
        /\ (/\ ~PyEq(self.include_fields, ALL)
            /\ "__all__" \notin Elems(self.include_fields)
            /\ PyEq(self.exclude_fields, EMPTY))
               => Range(FieldNames(last.outcome.model)) = Elems(self.include_fields)
        /\ (/\ PyEq(self.include_fields, ALL)
            /\ ~PyEq(self.exclude_fields, EMPTY))
               => Range(FieldNames(last.outcome.model))
                    = Range(ColumnNames(cls)) \ Elems(self.exclude_fields)

\* the fields of `model` come from the columns of c: same name, the column's
\* python_type, and `...` for no default, else the default's arg
FieldsMatchColumns(model, c) ==
    \A i \in DOMAIN model.fields :
        \E j \in DOMAIN c.columns :
            /\ c.columns[j].name = model.fields[i].name
            /\ model.fields[i].type = c.columns[j].python_type
            /\ model.fields[i].default =
                  (IF c.columns[j].default.isNone
                   THEN "..."
                   ELSE c.columns[j].default.arg)

\* C5: every field of a derived model (returned, or attached as Serializer)
\* has its column's python_type, and as default `...` when the column has no
\* default and the default's arg otherwise.
C5_TypesAndDefaults ==
    /\ last.outcome.kind = "model" => FieldsMatchColumns(last.outcome.model, cls)
    /\ cls.Serializer.set => FieldsMatchColumns(cls.Serializer.value, cls)

\* a model with a required field and a field with a default
C5_Witness ==
    /\ SelfFromOrm /\ last.outcome.kind = "model"
    /\ \E i, j \in DOMAIN last.outcome.model.fields :
          /\ last.outcome.model.fields[i].default = "..."
          /\ last.outcome.model.fields[j].default = "anon"

\* C6: a successful add returns cls, leaves cls.Serializer equal to the model
\* from_orm returns for the same Serializer and class (before and after), and
\* changes nothing else: the columns, the other attributes and the selectors
\* stay.
C6_AddAttaches ==
    [][(Call_add /\ last'.outcome.kind # "error") =>
          /\ last'.outcome = ReturnCls
          /\ from_orm(self, cls, hashOrder).kind = "model"
          /\ cls'.Serializer =
                [set |-> TRUE, value |-> from_orm(self, cls, hashOrder).model]
          /\ from_orm(self', cls', hashOrder') = from_orm(self, cls, hashOrder)
          /\ cls'.columns = cls.columns
          /\ cls'.dict = cls.dict \cup {"Serializer"}
          /\ self' = self]_vars

C6_Witness ==
    /\ last.by = "self" /\ last.op = "add"
    /\ last.outcome.kind = "cls"
    /\ cls.Serializer.set
    /\ Len(cls.Serializer.value.fields) >= 1
    /\ Len(cls.Serializer.value.fields) < Len(cls.columns)

\* C7 as stated: what from_orm returns for self and cls is the same at every
\* point of every sequence of from_orm and add calls, by self or another
\* Serializer.
C7_Original ==
    [][from_orm(self', cls', hashOrder') = from_orm(self, cls, hashOrder)]_vars

\* C8: _get_model called directly always returns a model, whose fields are
\* among the table's columns, also when _check_fields rejects the
\* configuration; from_orm raises exactly when _check_fields does, with its error.
C8_GetModelNeverFails ==
    /\ last.op = "_get_model" =>
          /\ last.outcome.kind = "model"
          /\ Range(FieldNames(last.outcome.model)) \subseteq Range(ColumnNames(cls))
    /\ SelfFromOrm =>
          IF _check_fields(self, cls, hashOrder).kind = "error"
          THEN last.outcome = _check_fields(self, cls, hashOrder)
          ELSE last.outcome.kind = "model"

\* a rejected configuration for which _get_model returns part of the columns
C8_Witness ==
    /\ last.op = "_get_model"
    /\ _check_fields(self, cls, hashOrder).kind = "error"
    /\ last.outcome.kind = "model"
    /\ Len(last.outcome.model.fields) >= 1
    /\ Len(last.outcome.model.fields) < Len(cls.columns)

\* C9: the "set in include_fields and exclude_fields" error (check 2) is
\* raised only with one selector its sentinel and for the name "__all__";
\* an ordinary name in both selectors gets the both-filled error (check 1).
C9_InBothOnlyForSentinel ==
    (last.by = "self" /\ last.op \in {"_check_fields", "from_orm", "add"}) =>
        /\ (last.outcome.kind = "error" /\ last.outcome.check = 2) =>
              /\ PyEq(self.include_fields, ALL) \/ PyEq(self.exclude_fields, EMPTY)
              /\ last.outcome.field = "__all__"
        /\ (\E n \in Elems(self.include_fields) \cap Elems(self.exclude_fields) :
               n # "__all__") =>
              (last.outcome.kind = "error" /\ last.outcome.check = 1)

C9_Witness ==
    /\ last.by = "self" /\ last.op = "_check_fields"
    /\ last.outcome.kind = "error" /\ last.outcome.check = 2
    /\ Len(self.exclude_fields.items) = 2

\* C10: an add that raises leaves the class as it was: no Serializer
\* attribute is added, and one set by an earlier add is kept.
C10_FailedAddLeavesClass ==
    [][(last'.op = "add" /\ last'.outcome.kind = "error") => cls' = cls]_vars

\* self's add raised on a class that another Serializer had decorated
C10_Witness ==
    /\ last.by = "self" /\ last.op = "add"
    /\ last.outcome.kind = "error"
    /\ cls.Serializer.set
    /\ Len(cls.Serializer.value.fields) >= 1

====
